---- MODULE Spec2Model ----
(***************************************************************************)
(* A model of the loan-marketplace server of src/index.js: three MongoDB   *)
(* collections (users, loans, loanApplications), the verifyJWT /           *)
(* verifyManager / verifyAdmin middleware, and the route handlers.         *)
(*                                                                         *)
(* A collection is a sequence of documents in insertion (natural) order,   *)
(* the order find(query).toArray() returns the matching ones in.           *)
(* An absent field is the string "undefined" (an absent Date is NoDate, an *)
(* absent paymentInfo is NoPaymentInfo).  An ObjectId is a natural number, *)
(* nextId the next one the driver generates in each collection; BadId is a *)
(* request parameter that is no well-formed ObjectId.                      *)
(* A bearer token is modelled by the email it decodes to, "undefined" when *)
(* the header is missing or the token does not verify.                     *)
(*                                                                         *)
(* A request runs up to its next store call in one step: between two       *)
(* awaited store calls other requests run.  The role middleware's findOne  *)
(* is one step and the handler behind it another; a handler with two store *)
(* calls is two steps.  Between its steps a request waits in a slot of     *)
(* inflight with what it holds in its local variables.                     *)
(* Every step records in resp the response it sent (NoResp for a step that *)
(* sends none).                                                            *)
(***************************************************************************)
EXTENDS Integers, Sequences, FiniteSets, TLC

VARIABLES users, loans, apps, nextId, now, inflight, resp

vars == <<users, loans, apps, nextId, now, inflight, resp>>
db == <<users, loans, apps, nextId>>

\* ------------------------------------------------------------------ bounds
MaxApps == 1
MaxUsers == 2
MaxLoans == 2
MaxPage == 2
MaxLimit == 2
MaxTime == 2
MaxInflight == 2

\* ------------------------------------------------------------------ values
Undefined == "undefined"
NoDate == 0
BadId == 0

Alice == "a@x.com"
Bob == "b@x.com"
Manager == "m@x.com"
Root == "r@x.com"
Stranger == "z@x.com"

Borrowers == {Alice, Bob}
Tokens == {Alice, Bob, Manager, Root, Stranger, Undefined}

Statuses == {"pending", "approved", "rejected"}

NoPaymentInfo == [email |-> Undefined, transactionId |-> Undefined, paidAt |-> NoDate]

NoQuery == [page |-> 0, limit |-> 0, search |-> <<>>, category |-> Undefined]

NoResp ==
  [route |-> "none", caller |-> Undefined, id |-> BadId, code |-> 0,
   role |-> Undefined, arg |-> Undefined, n |-> 0, docs |-> <<>>, query |-> NoQuery]

\* res.status(code).send(...): the response of one request.
\* arg echoes the request's other parameter where a route has one.
Reply(route, caller, id, code) ==
  [NoResp EXCEPT !.route = route, !.caller = caller, !.id = id, !.code = code]

\* An exception thrown inside an async handler: the default error handler's
\* 500 where the framework forwards rejected promises, no response where it
\* does not (code 0).
ThrowCodes == {0, 500}

\* ------------------------------------------------------------ collections
Min(S) == CHOOSE x \in S : \A y \in S : x <= y

\* ObjectId.isValid(id) / new ObjectId(id) not throwing
IsValidId(id) == id # BadId

\* index of the first document with this _id, 0 when there is none
IndexOfId(coll, id) ==
  LET S == {i \in 1..Len(coll) : coll[i]._id = id}
  IN IF S = {} THEN 0 ELSE Min(S)

HasId(coll, id) == IndexOfId(coll, id) # 0

DocOfId(coll, id) == coll[IndexOfId(coll, id)]

\* collection.deleteOne({_id}): the first match is removed
DeleteOne(coll, id) ==
  LET i == IndexOfId(coll, id)
  IN IF i = 0 THEN coll
     ELSE [j \in 1..(Len(coll) - 1) |-> IF j < i THEN coll[j] ELSE coll[j + 1]]

\* collection.updateOne({_id}, {$set: ...}): the first match is replaced by
\* set, the matched document with the $set applied; no match leaves the
\* collection as it is
UpdateOne(coll, id, set) ==
  LET i == IndexOfId(coll, id)
  IN IF i = 0 THEN coll ELSE [coll EXCEPT ![i] = set]

\* result.modifiedCount: 1 when a document matched and $set changed it
ModifiedCount(coll, id, set) ==
  IF HasId(coll, id) /\ set # DocOfId(coll, id) THEN 1 ELSE 0

\* result.matchedCount
MatchedCount(coll, id) == IF HasId(coll, id) THEN 1 ELSE 0

\* ------------------------------------------------------------- middleware
\* verifyJWT: the token is present and verifies
verifyJWT(token) == token # Undefined

\* usersCollection.findOne({email}) then user?.role
RoleOf(email) ==
  LET S == {i \in 1..Len(users) : users[i].email = email}
  IN IF S = {} THEN Undefined ELSE users[Min(S)].role

\* a gate that only asks for a user record
verifyManager_AnyUser(email) == RoleOf(email) # Undefined

verifyManager(email) == RoleOf(email) = "manager"

verifyAdmin(email) == RoleOf(email) = "admin"

\* ------------------------------------------------------- requests in flight
Slots == 1..MaxInflight

\* the body of a request that carries no loan
NoBody == [loanTitle |-> <<>>, category |-> Undefined, showOnHome |-> FALSE]

\* What a request between two of its store calls holds: the route (kind), the
\* token's email, the path's id, the fields of its body and query it will
\* use, and what its earlier store calls returned (exists, docs).
Idle ==
  [kind |-> "idle", caller |-> Undefined, id |-> BadId, email |-> Undefined,
   role |-> Undefined, exists |-> FALSE, status |-> Undefined, reason |-> Undefined,
   feedback |-> Undefined, body |-> NoBody, query |-> NoQuery, docs |-> <<>>]

Request(kind, caller, id) ==
  [Idle EXCEPT !.kind = kind, !.caller = caller, !.id = id]

\* a slot a new request may take: the first one not in use
Free(slot) ==
  /\ inflight[slot].kind = "idle"
  /\ \A k \in 1..(slot - 1) : inflight[k].kind # "idle"

\* verifyJWT, verifyManager: the middleware in front of a manager-only
\* handler, up to the await of its findOne.  r is the request as its handler
\* will see it.
ManagerGate(slot, r) ==
  /\ Free(slot)
  /\ IF ~verifyJWT(r.caller)
     THEN /\ resp' = Reply(r.kind, r.caller, r.id, 401)
          /\ UNCHANGED inflight
     ELSE IF ~verifyManager(r.caller)
     THEN /\ resp' = [Reply(r.kind, r.caller, r.id, 403) EXCEPT !.role = RoleOf(r.caller)]
          /\ UNCHANGED inflight
     ELSE /\ inflight' = [inflight EXCEPT ![slot] = r]
          /\ resp' = NoResp
  /\ UNCHANGED <<db, now>>

\* verifyJWT, verifyAdmin
AdminGate(slot, r) ==
  /\ Free(slot)
  /\ IF ~verifyJWT(r.caller)
     THEN /\ resp' = Reply(r.kind, r.caller, r.id, 401)
          /\ UNCHANGED inflight
     ELSE IF ~verifyAdmin(r.caller)
     THEN /\ resp' = [Reply(r.kind, r.caller, r.id, 403) EXCEPT !.role = RoleOf(r.caller)]
          /\ UNCHANGED inflight
     ELSE /\ inflight' = [inflight EXCEPT ![slot] = r]
          /\ resp' = NoResp
  /\ UNCHANGED <<db, now>>

\* ------------------------------------------------------------ applications
\* body.appliedAt as the client sends it: absent, or a date
AppliedAts == {NoDate, 1}

\* What a client may put in the body of POST /loan-applications.
AppBodies ==
  [userEmail : Borrowers,
   status : {Undefined, "pending"},
   applicationFeeStatus : {Undefined, "unpaid"},
   appliedAt : AppliedAts]

\* The stored document: the request body as it came, plus the _id the driver
\* assigns.  The fields only later $set operations write start absent.
NewApplication(id, body) ==
  [_id |-> id,
   userEmail |-> body.userEmail,
   status |-> body.status,
   applicationFeeStatus |-> body.applicationFeeStatus,
   appliedAt |-> body.appliedAt,
   paymentInfo |-> NoPaymentInfo,
   rejectionReason |-> Undefined, rejectedAt |-> NoDate, managedBy |-> Undefined,
   approvedAt |-> NoDate, handledBy |-> Undefined,
   adminReason |-> Undefined, updatedAt |-> NoDate]

\* POST /loan-applications
SubmitApplication(token, body) ==
  /\ nextId.apps <= MaxApps
  /\ IF ~verifyJWT(token)
     THEN /\ resp' = Reply("submit", token, BadId, 401)
          /\ UNCHANGED db
     ELSE /\ apps' = Append(apps, NewApplication(nextId.apps, body))
          /\ nextId' = [nextId EXCEPT !.apps = @ + 1]
          /\ resp' = Reply("submit", token, nextId.apps, 200)
          /\ UNCHANGED <<users, loans>>
  /\ UNCHANGED <<now, inflight>>

\* GET /my-loans?email=
MyLoans(token, email) ==
  /\ IF ~verifyJWT(token)
     THEN resp' = Reply("my-loans", token, BadId, 401)
     ELSE LET OfEmail(a) == a.userEmail = email
          IN resp' = [Reply("my-loans", token, BadId, 200) EXCEPT
                        !.arg = email, !.docs = SelectSeq(apps, OfEmail)]
  /\ UNCHANGED <<db, now, inflight>>

\* stripe.checkout.sessions.retrieve(sessionId): the processor's sessions.
SessionIds == {"cs_paid", "cs_open", "cs_none"}

SessionExists(sessionId) == sessionId # "cs_none"

PaymentStatus(sessionId) == IF sessionId = "cs_paid" THEN "paid" ELSE "unpaid"

PaymentIntent(sessionId) == IF sessionId = "cs_paid" THEN "pi_1" ELSE Undefined

\* the $set of verify-payment
SetPaid(sessionId, email, at, a) ==
  [a EXCEPT !.applicationFeeStatus = "paid",
            !.paymentInfo = [email |-> email,
                             transactionId |-> PaymentIntent(sessionId),
                             paidAt |-> at]]

\* POST /loan-applications/verify-payment; loanId is used as the
\* application's _id.  The processor is asked first; the handler's one store
\* call is the updateOne.
VerifyPayment(token, loanId, sessionId, email) ==
  /\ LET Answer(code) == [Reply("verify-payment", token, loanId, code) EXCEPT
                            !.arg = sessionId]
     IN IF ~verifyJWT(token)
        THEN /\ resp' = Answer(401)
             /\ UNCHANGED db
        ELSE IF ~SessionExists(sessionId)
        THEN /\ \E c \in ThrowCodes : resp' = Answer(c)
             /\ UNCHANGED db
        ELSE IF PaymentStatus(sessionId) = "paid"
        THEN IF ~IsValidId(loanId)
             THEN /\ \E c \in ThrowCodes : resp' = Answer(c)
                  /\ UNCHANGED db
             ELSE LET set == SetPaid(sessionId, email, now, DocOfId(apps, loanId))
                  IN /\ apps' = UpdateOne(apps, loanId, set)
                     /\ resp' = [Answer(200) EXCEPT
                                   !.n = ModifiedCount(apps, loanId, set)]
                     /\ UNCHANGED <<users, loans, nextId>>
        ELSE /\ resp' = Answer(400)
             /\ UNCHANGED db
  /\ UNCHANGED <<now, inflight>>

\* PATCH /loan-applications/cancel/:id up to the await of findOne: the
\* request answers 400 at once or goes on to deleteOne.
CancelFind(slot, token, id) ==
  /\ Free(slot)
  /\ IF ~verifyJWT(token)
     THEN /\ resp' = Reply("cancel", token, id, 401)
          /\ UNCHANGED inflight
     ELSE IF ~IsValidId(id)
     THEN /\ \E c \in ThrowCodes : resp' = Reply("cancel", token, id, c)
          /\ UNCHANGED inflight
     ELSE IF ~HasId(apps, id) \/ DocOfId(apps, id).status # "pending"
     THEN /\ resp' = Reply("cancel", token, id, 400)
          /\ UNCHANGED inflight
     ELSE /\ inflight' = [inflight EXCEPT ![slot] = Request("cancel", token, id)]
          /\ resp' = NoResp
  /\ UNCHANGED <<db, now>>

\* ... and from deleteOne on.
CancelDelete(slot) ==
  /\ inflight[slot].kind = "cancel"
  /\ LET r == inflight[slot]
     IN /\ apps' = DeleteOne(apps, r.id)
        /\ resp' = [Reply("cancel", r.caller, r.id, 200) EXCEPT
                      !.n = IF HasId(apps, r.id) THEN 1 ELSE 0]
  /\ inflight' = [inflight EXCEPT ![slot] = Idle]
  /\ UNCHANGED <<users, loans, nextId, now>>

\* GET /manager/loan-applications?status=, behind the manager gate (the first
\* registration answers; the second, sorted one is never reached)
ManagerListApplications(slot) ==
  /\ inflight[slot].kind = "manager-list"
  /\ LET r == inflight[slot]
         OfStatus(a) == r.status = Undefined \/ a.status = r.status
     IN resp' = [Reply("manager-list", r.caller, BadId, 200) EXCEPT
                   !.docs = SelectSeq(apps, OfStatus)]
  /\ inflight' = [inflight EXCEPT ![slot] = Idle]
  /\ UNCHANGED <<db, now>>

\* the $set of the approve route that answers
SetApproved(a) == [a EXCEPT !.status = "approved"]

\* PATCH /loan-applications/manager/:id/approve, behind the manager gate.  Two
\* handlers are registered on this path; the router runs the first, which
\* always answers and never calls next(), so the second (approvedAt,
\* handledBy) never runs.
ManagerApprove(slot) ==
  /\ inflight[slot].kind = "approve"
  /\ LET r == inflight[slot]
     IN IF ~IsValidId(r.id)
        THEN /\ resp' = Reply("approve", r.caller, r.id, 400)
             /\ UNCHANGED db
        ELSE /\ apps' = UpdateOne(apps, r.id, SetApproved(DocOfId(apps, r.id)))
             /\ resp' = IF ModifiedCount(apps, r.id, SetApproved(DocOfId(apps, r.id))) > 0
                        THEN [Reply("approve", r.caller, r.id, 200) EXCEPT !.n = 1]
                        ELSE Reply("approve", r.caller, r.id, 404)
             /\ UNCHANGED <<users, loans, nextId>>
  /\ inflight' = [inflight EXCEPT ![slot] = Idle]
  /\ UNCHANGED now

\* req.user: no middleware assigns it (verifyJWT sets req.tokenEmail only)
ReqUser(token) == Undefined

\* the $set of the reject route
SetRejected(reason, at, by, a) ==
  [a EXCEPT !.status = "rejected", !.rejectionReason = reason,
            !.rejectedAt = at, !.managedBy = by]

\* PATCH /loan-applications/manager/:id/reject, behind the manager gate:
\* building the update reads req.user.email, which throws when req.user is
\* undefined
ManagerReject(slot) ==
  /\ inflight[slot].kind = "reject"
  /\ LET r == inflight[slot]
     IN IF ~IsValidId(r.id) \/ ReqUser(r.caller) = Undefined
        THEN /\ \E c \in ThrowCodes :
                  resp' = [Reply("reject", r.caller, r.id, c) EXCEPT !.arg = r.reason]
             /\ UNCHANGED db
        ELSE LET set == SetRejected(r.reason, now, ReqUser(r.caller), DocOfId(apps, r.id))
             IN /\ apps' = UpdateOne(apps, r.id, set)
                /\ resp' = [Reply("reject", r.caller, r.id, 200) EXCEPT
                              !.arg = r.reason, !.n = ModifiedCount(apps, r.id, set)]
                /\ UNCHANGED <<users, loans, nextId>>
  /\ inflight' = [inflight EXCEPT ![slot] = Idle]
  /\ UNCHANGED now

\* cursor.sort({appliedAt: -1}): the latest first, the documents without the
\* field last; the order of documents with equal keys is the store's choice
SortedByAppliedAt(coll) ==
  LET n == Len(coll)
      Orders == {p \in [1..n -> 1..n] :
                   /\ \A i, j \in 1..n : p[i] = p[j] => i = j
                   /\ \A k \in 1..(n - 1) :
                        coll[p[k]].appliedAt >= coll[p[k + 1]].appliedAt}
  IN {[k \in 1..n |-> coll[p[k]]] : p \in Orders}

\* GET /admin/loan-applications, behind the admin gate
AdminListApplications(slot) ==
  /\ inflight[slot].kind = "admin-list"
  /\ \E sorted \in SortedByAppliedAt(apps) :
       resp' = [Reply("admin-list", inflight[slot].caller, BadId, 200) EXCEPT
                  !.docs = sorted]
  /\ inflight' = [inflight EXCEPT ![slot] = Idle]
  /\ UNCHANGED <<db, now>>

\* reason || ""
OrEmpty(reason) == IF reason = Undefined THEN "" ELSE reason

\* the $set of the admin status route
SetStatus(status, reason, at, a) ==
  [a EXCEPT !.status = status, !.adminReason = OrEmpty(reason), !.updatedAt = at]

\* PATCH /admin/loan-applications/:id/status, behind the admin gate
AdminStatus(slot) ==
  /\ inflight[slot].kind = "admin-status"
  /\ LET r == inflight[slot]
     IN IF ~IsValidId(r.id)
        THEN /\ \E c \in ThrowCodes :
                  resp' = [Reply("admin-status", r.caller, r.id, c) EXCEPT
                             !.arg = r.status]
             /\ UNCHANGED db
        ELSE LET set == SetStatus(r.status, r.reason, now, DocOfId(apps, r.id))
             IN /\ apps' = UpdateOne(apps, r.id, set)
                /\ resp' = IF ModifiedCount(apps, r.id, set) > 0
                           THEN [Reply("admin-status", r.caller, r.id, 200) EXCEPT
                                   !.arg = r.status, !.n = 1]
                           ELSE [Reply("admin-status", r.caller, r.id, 404) EXCEPT
                                   !.arg = r.status]
                /\ UNCHANGED <<users, loans, nextId>>
  /\ inflight' = [inflight EXCEPT ![slot] = Idle]
  /\ UNCHANGED now

\* new Date(): time passes between requests
Tick ==
  /\ now < MaxTime
  /\ now' = now + 1
  /\ resp' = NoResp
  /\ UNCHANGED <<db, inflight>>

\* ------------------------------------------------------------------- users
\* a stored user document
User(id, email, role, at) ==
  [_id |-> id, email |-> email, role |-> role, status |-> "approved",
   created_at |-> at, last_loggedIn |-> at,
   suspendReason |-> Undefined, adminFeedback |-> Undefined]

\* userData.role || "borrower"
OrBorrower(role) == IF role = Undefined THEN "borrower" ELSE role

\* usersCollection.findOne({email}) is not null
UserExists(email) == \E i \in 1..Len(users) : users[i].email = email

\* usersCollection.updateOne({email}, {$set: {last_loggedIn}}): the first
\* document with this email
TouchLogin(email, at) ==
  LET S == {i \in 1..Len(users) : users[i].email = email}
  IN IF S = {} THEN users
     ELSE [users EXCEPT ![Min(S)] = [@ EXCEPT !.last_loggedIn = at]]

\* POST /users up to the await of findOne (no middleware guards the route)
PostUsersFind(slot, email, role) ==
  /\ Free(slot)
  /\ inflight' = [inflight EXCEPT ![slot] =
                    [Idle EXCEPT !.kind = "users", !.email = email, !.role = role,
                                 !.exists = UserExists(email)]]
  /\ resp' = NoResp
  /\ UNCHANGED <<db, now>>

\* ... and from there on: updateOne when findOne had found a user, insertOne
\* when it had not
PostUsersWrite(slot) ==
  /\ inflight[slot].kind = "users"
  /\ LET r == inflight[slot]
     IN IF r.exists
        THEN /\ users' = TouchLogin(r.email, now)
             /\ resp' = [Reply("users", Undefined, BadId, 200) EXCEPT
                           !.arg = r.email, !.n = IF users' # users THEN 1 ELSE 0]
             /\ UNCHANGED nextId
        ELSE /\ nextId.users <= MaxUsers
             /\ users' = Append(users, User(nextId.users, r.email, OrBorrower(r.role), now))
             /\ nextId' = [nextId EXCEPT !.users = @ + 1]
             /\ resp' = [Reply("users", Undefined, nextId.users, 200) EXCEPT
                           !.arg = r.email]
  /\ inflight' = [inflight EXCEPT ![slot] = Idle]
  /\ UNCHANGED <<loans, apps, now>>

\* GET /users/role/:email
UsersRole(email) ==
  /\ resp' = [Reply("users-role", Undefined, BadId, 200) EXCEPT
                !.arg = email, !.role = RoleOf(email)]
  /\ UNCHANGED <<db, now, inflight>>

\* cursor.skip(k)
Skip(seq, k) ==
  IF k >= Len(seq) THEN <<>> ELSE [i \in 1..(Len(seq) - k) |-> seq[i + k]]

\* cursor.limit(n): a limit of 0 is no limit
Limit(seq, n) ==
  IF n = 0 \/ n >= Len(seq) THEN seq ELSE [i \in 1..n |-> seq[i]]

\* pages counted from 0
SkipOf_FromZero(page, limit) == page * limit

\* (parseInt(page) - 1) * parseInt(limit)
SkipOf(page, limit) == (page - 1) * limit

\* the query of GET /admin/users and GET /admin/users-management for requests
\* without a search term: everyone but the caller, of the role and the status
\* the request names
UsersMatch(adminEmail, role, status, u) ==
  /\ u.email # adminEmail
  /\ role = Undefined \/ u.role = role
  /\ status = Undefined \/ u.status = status

\* GET /admin/users?role=&status=&page=&limit=, behind the admin gate, up to
\* the await of find().skip().limit().toArray(): one page of the matching
\* users.  A negative skip is refused by the cursor.
AdminUsersFind(slot) ==
  /\ inflight[slot].kind = "admin-users"
  /\ LET r == inflight[slot]
         Match(u) == UsersMatch(r.caller, r.role, r.status, u)
         skip == SkipOf(r.query.page, r.query.limit)
     IN IF skip < 0
        THEN /\ \E c \in ThrowCodes :
                  resp' = [Reply("admin-users", r.caller, BadId, c) EXCEPT
                             !.query = r.query]
             /\ inflight' = [inflight EXCEPT ![slot] = Idle]
        ELSE /\ inflight' = [inflight EXCEPT ![slot] =
                               [r EXCEPT !.kind = "admin-users-count",
                                         !.docs = Limit(Skip(SelectSeq(users, Match), skip),
                                                        r.query.limit)]]
             /\ resp' = NoResp
  /\ UNCHANGED <<db, now>>

\* ... and from countDocuments on: the page found before, and the number of
\* matching users now
AdminUsersCount(slot) ==
  /\ inflight[slot].kind = "admin-users-count"
  /\ LET r == inflight[slot]
         Match(u) == UsersMatch(r.caller, r.role, r.status, u)
     IN resp' = [Reply("admin-users", r.caller, BadId, 200) EXCEPT
                   !.query = r.query,
                   !.docs = r.docs,
                   !.n = Len(SelectSeq(users, Match))]
  /\ inflight' = [inflight EXCEPT ![slot] = Idle]
  /\ UNCHANGED <<db, now>>

\* GET /admin/users-management?role=&status=, behind the admin gate
AdminUsersManagement(slot) ==
  /\ inflight[slot].kind = "admin-users-management"
  /\ LET r == inflight[slot]
         Match(u) == UsersMatch(r.caller, r.role, r.status, u)
     IN resp' = [Reply("admin-users-management", r.caller, BadId, 200) EXCEPT
                   !.docs = SelectSeq(users, Match)]
  /\ inflight' = [inflight EXCEPT ![slot] = Idle]
  /\ UNCHANGED <<db, now>>

\* PATCH /admin/users/:id/role, behind the admin gate
AdminUserRole(slot) ==
  /\ inflight[slot].kind = "admin-user-role"
  /\ LET r == inflight[slot]
     IN IF ~IsValidId(r.id)
        THEN /\ \E c \in ThrowCodes : resp' = Reply("admin-user-role", r.caller, r.id, c)
             /\ UNCHANGED db
        ELSE LET set == [DocOfId(users, r.id) EXCEPT !.role = r.role]
             IN /\ users' = UpdateOne(users, r.id, set)
                /\ resp' = IF MatchedCount(users, r.id) = 0
                           THEN Reply("admin-user-role", r.caller, r.id, 404)
                           ELSE [Reply("admin-user-role", r.caller, r.id, 200) EXCEPT
                                   !.arg = r.role, !.n = ModifiedCount(users, r.id, set)]
                /\ UNCHANGED <<loans, apps, nextId>>
  /\ inflight' = [inflight EXCEPT ![slot] = Idle]
  /\ UNCHANGED now

\* PATCH /admin/users/:id/suspend, behind the admin gate
AdminUserSuspend(slot) ==
  /\ inflight[slot].kind = "admin-user-suspend"
  /\ LET r == inflight[slot]
     IN IF ~IsValidId(r.id)
        THEN /\ \E c \in ThrowCodes :
                  resp' = Reply("admin-user-suspend", r.caller, r.id, c)
             /\ UNCHANGED db
        ELSE LET set == [DocOfId(users, r.id) EXCEPT !.status = "suspended",
                                                     !.suspendReason = r.reason,
                                                     !.adminFeedback = r.feedback]
             IN /\ users' = UpdateOne(users, r.id, set)
                /\ resp' = [Reply("admin-user-suspend", r.caller, r.id, 200) EXCEPT
                              !.n = ModifiedCount(users, r.id, set)]
                /\ UNCHANGED <<loans, apps, nextId>>
  /\ inflight' = [inflight EXCEPT ![slot] = Idle]
  /\ UNCHANGED now

\* PATCH /admin/users/:id/approve, behind the admin gate (the ObjectId is
\* built outside the try)
AdminUserApprove(slot) ==
  /\ inflight[slot].kind = "admin-user-approve"
  /\ LET r == inflight[slot]
     IN IF ~IsValidId(r.id)
        THEN /\ \E c \in ThrowCodes :
                  resp' = Reply("admin-user-approve", r.caller, r.id, c)
             /\ UNCHANGED db
        ELSE LET set == [DocOfId(users, r.id) EXCEPT !.status = "approved"]
             IN /\ users' = UpdateOne(users, r.id, set)
                /\ resp' = [Reply("admin-user-approve", r.caller, r.id, 200) EXCEPT
                              !.n = ModifiedCount(users, r.id, set)]
                /\ UNCHANGED <<loans, apps, nextId>>
  /\ inflight' = [inflight EXCEPT ![slot] = Idle]
  /\ UNCHANGED now

\* The accounts the other routes are exercised with: each is what POST /users
\* stores for a first sign-in with that email and role.
Staff ==
  <<User(101, Alice, "borrower", 1), User(102, Bob, "borrower", 1),
    User(103, Manager, "manager", 1), User(104, Root, "admin", 1)>>

\* ------------------------------------------------------------------- loans
\* A title or a search term is a sequence of characters; a search term of
\* the model has no regular-expression operator in it, so that $regex with
\* $options "i" finds it as a substring, whatever the case.
Lower(c) == IF c = "A" THEN "a" ELSE IF c = "B" THEN "b" ELSE c

LowerSeq(str) == [i \in 1..Len(str) |-> Lower(str[i])]

RegexI(str, pattern) ==
  \E k \in 0..(Len(str) - Len(pattern)) :
    SubSeq(LowerSeq(str), k + 1, k + Len(pattern)) = LowerSeq(pattern)

Searches == {<<>>, <<"a">>}
Categories == {"car", "home"}

\* What a manager may put in the body of POST /loans.
LoanBodies ==
  {[loanTitle |-> <<"A", "b">>, category |-> "car", showOnHome |-> TRUE],
   [loanTitle |-> <<"b">>, category |-> "car", showOnHome |-> TRUE],
   [loanTitle |-> <<"A", "b">>, category |-> "home", showOnHome |-> TRUE],
   [loanTitle |-> <<"b">>, category |-> "home", showOnHome |-> FALSE]}

\* the stored document: the body as it came, plus the driver's _id
NewLoan(id, body) ==
  [_id |-> id, loanTitle |-> body.loanTitle, category |-> body.category,
   showOnHome |-> body.showOnHome, updatedAt |-> NoDate]

\* the query of GET /all-loans: showOnHome true, and the title and the
\* category when the request names them (an empty string is falsy)
AllLoansMatch(search, category, l) ==
  /\ l.showOnHome = TRUE
  /\ search = <<>> \/ RegexI(l.loanTitle, search)
  /\ category = Undefined \/ l.category = category

\* GET /all-loans?page=&limit=&search=&category= (no middleware) up to the
\* await of find().skip().limit().toArray(): one page of the matching loans.
\* A negative skip is refused by the cursor.
AllLoansFind(slot, page, limit, search, category) ==
  /\ Free(slot)
  /\ LET q == [page |-> page, limit |-> limit, search |-> search, category |-> category]
         Match(l) == AllLoansMatch(search, category, l)
         skip == SkipOf(page, limit)
     IN IF skip < 0
        THEN /\ \E c \in ThrowCodes :
                  resp' = [Reply("all-loans", Undefined, BadId, c) EXCEPT !.query = q]
             /\ UNCHANGED inflight
        ELSE /\ inflight' = [inflight EXCEPT ![slot] =
                               [Request("all-loans", Undefined, BadId) EXCEPT
                                  !.query = q,
                                  !.docs = Limit(Skip(SelectSeq(loans, Match), skip), limit)]]
             /\ resp' = NoResp
  /\ UNCHANGED <<db, now>>

\* ... and from countDocuments on: the page found before, and the number of
\* matching loans now
AllLoansCount(slot) ==
  /\ inflight[slot].kind = "all-loans"
  /\ LET r == inflight[slot]
         Match(l) == AllLoansMatch(r.query.search, r.query.category, l)
     IN resp' = [Reply("all-loans", Undefined, BadId, 200) EXCEPT
                   !.query = r.query,
                   !.docs = r.docs,
                   !.n = Len(SelectSeq(loans, Match))]
  /\ inflight' = [inflight EXCEPT ![slot] = Idle]
  /\ UNCHANGED <<db, now>>

\* POST /loans, behind the manager gate
PostLoans(slot) ==
  /\ inflight[slot].kind = "post-loans"
  /\ nextId.loans <= MaxLoans
  /\ loans' = Append(loans, NewLoan(nextId.loans, inflight[slot].body))
  /\ nextId' = [nextId EXCEPT !.loans = @ + 1]
  /\ resp' = Reply("post-loans", inflight[slot].caller, nextId.loans, 200)
  /\ inflight' = [inflight EXCEPT ![slot] = Idle]
  /\ UNCHANGED <<users, apps, now>>

\* GET /loans, behind the manager gate
GetLoans(slot) ==
  /\ inflight[slot].kind = "get-loans"
  /\ resp' = [Reply("get-loans", inflight[slot].caller, BadId, 200) EXCEPT !.docs = loans]
  /\ inflight' = [inflight EXCEPT ![slot] = Idle]
  /\ UNCHANGED <<db, now>>

\* DELETE /loans/:id, behind the manager gate
DeleteLoans(slot) ==
  /\ inflight[slot].kind = "delete-loans"
  /\ LET r == inflight[slot]
     IN IF ~IsValidId(r.id)
        THEN /\ \E c \in ThrowCodes : resp' = Reply("delete-loans", r.caller, r.id, c)
             /\ UNCHANGED db
        ELSE /\ loans' = DeleteOne(loans, r.id)
             /\ resp' = [Reply("delete-loans", r.caller, r.id, 200) EXCEPT
                           !.n = MatchedCount(loans, r.id)]
             /\ UNCHANGED <<users, apps, nextId>>
  /\ inflight' = [inflight EXCEPT ![slot] = Idle]
  /\ UNCHANGED now

\* $set: {...req.body}: every field the body names is written, the others
\* stay (of the fields the model keeps)
SetBody(doc, body) ==
  [doc EXCEPT
     !.loanTitle = IF "loanTitle" \in DOMAIN body THEN body.loanTitle ELSE @,
     !.category = IF "category" \in DOMAIN body THEN body.category ELSE @,
     !.showOnHome = IF "showOnHome" \in DOMAIN body THEN body.showOnHome ELSE @]

\* PATCH /loans/:id, behind the manager gate
PatchLoans(slot) ==
  /\ inflight[slot].kind = "patch-loans"
  /\ LET r == inflight[slot]
     IN IF ~IsValidId(r.id)
        THEN /\ \E c \in ThrowCodes : resp' = Reply("patch-loans", r.caller, r.id, c)
             /\ UNCHANGED db
        ELSE LET set == SetBody(DocOfId(loans, r.id), r.body)
             IN /\ loans' = UpdateOne(loans, r.id, set)
                /\ resp' = [Reply("patch-loans", r.caller, r.id, 200) EXCEPT
                              !.n = ModifiedCount(loans, r.id, set)]
                /\ UNCHANGED <<users, apps, nextId>>
  /\ inflight' = [inflight EXCEPT ![slot] = Idle]
  /\ UNCHANGED now

\* GET /admin/loans, behind the admin gate
AdminLoans(slot) ==
  /\ inflight[slot].kind = "admin-loans"
  /\ resp' = [Reply("admin-loans", inflight[slot].caller, BadId, 200) EXCEPT
                !.docs = loans]
  /\ inflight' = [inflight EXCEPT ![slot] = Idle]
  /\ UNCHANGED <<db, now>>

\* GET /admin/loans/:id, behind the admin gate
AdminLoan(slot) ==
  /\ inflight[slot].kind = "admin-loan"
  /\ LET r == inflight[slot]
     IN IF ~IsValidId(r.id)
        THEN \E c \in ThrowCodes : resp' = Reply("admin-loan", r.caller, r.id, c)
        ELSE IF ~HasId(loans, r.id)
        THEN resp' = Reply("admin-loan", r.caller, r.id, 404)
        ELSE resp' = [Reply("admin-loan", r.caller, r.id, 200) EXCEPT
                        !.docs = <<DocOfId(loans, r.id)>>]
  /\ inflight' = [inflight EXCEPT ![slot] = Idle]
  /\ UNCHANGED <<db, now>>

\* PATCH /admin/loans/:id/show-on-home, behind the admin gate (the ObjectId
\* is built inside the try)
AdminShowOnHome(slot) ==
  /\ inflight[slot].kind = "admin-show-on-home"
  /\ LET r == inflight[slot]
     IN IF ~IsValidId(r.id)
        THEN /\ resp' = Reply("admin-show-on-home", r.caller, r.id, 500)
             /\ UNCHANGED db
        ELSE LET set == [DocOfId(loans, r.id) EXCEPT !.showOnHome = r.body.showOnHome]
             IN /\ loans' = UpdateOne(loans, r.id, set)
                /\ resp' = [Reply("admin-show-on-home", r.caller, r.id, 200) EXCEPT
                              !.n = ModifiedCount(loans, r.id, set)]
                /\ UNCHANGED <<users, apps, nextId>>
  /\ inflight' = [inflight EXCEPT ![slot] = Idle]
  /\ UNCHANGED now

\* PUT /admin/loans/:id, behind the admin gate, of the fields the model keeps
AdminPutLoan(slot) ==
  /\ inflight[slot].kind = "admin-put-loan"
  /\ LET r == inflight[slot]
     IN IF ~IsValidId(r.id)
        THEN /\ \E c \in ThrowCodes : resp' = Reply("admin-put-loan", r.caller, r.id, c)
             /\ UNCHANGED db
        ELSE LET set == [DocOfId(loans, r.id) EXCEPT !.loanTitle = r.body.loanTitle,
                                                     !.category = r.body.category,
                                                     !.showOnHome = r.body.showOnHome,
                                                     !.updatedAt = now]
             IN /\ loans' = UpdateOne(loans, r.id, set)
                /\ resp' = IF MatchedCount(loans, r.id) = 0
                           THEN Reply("admin-put-loan", r.caller, r.id, 404)
                           ELSE [Reply("admin-put-loan", r.caller, r.id, 200) EXCEPT
                                   !.n = ModifiedCount(loans, r.id, set)]
                /\ UNCHANGED <<users, apps, nextId>>
  /\ inflight' = [inflight EXCEPT ![slot] = Idle]
  /\ UNCHANGED now

\* DELETE /admin/loans/:id, behind the admin gate
AdminDeleteLoan(slot) ==
  /\ inflight[slot].kind = "admin-delete-loan"
  /\ LET r == inflight[slot]
     IN IF ~IsValidId(r.id)
        THEN /\ \E c \in ThrowCodes :
                  resp' = Reply("admin-delete-loan", r.caller, r.id, c)
             /\ UNCHANGED db
        ELSE /\ loans' = DeleteOne(loans, r.id)
             /\ resp' = [Reply("admin-delete-loan", r.caller, r.id, 200) EXCEPT
                           !.n = MatchedCount(loans, r.id)]
             /\ UNCHANGED <<users, apps, nextId>>
  /\ inflight' = [inflight EXCEPT ![slot] = Idle]
  /\ UNCHANGED now

\* ---------------------------------------------------------------- requests
\* the requests the specifications send, as their handlers see them
ListRequest(token, status) ==
  [Request("manager-list", token, BadId) EXCEPT !.status = status]

RejectRequest(token, id, reason) ==
  [Request("reject", token, id) EXCEPT !.reason = reason]

StatusRequest(token, id, status, reason) ==
  [Request("admin-status", token, id) EXCEPT !.status = status, !.reason = reason]

LoanRequest(kind, token, id, body) ==
  [Request(kind, token, id) EXCEPT !.body = body]

UsersRequest(kind, token, role, status, page, limit) ==
  [Request(kind, token, BadId) EXCEPT
     !.role = role, !.status = status,
     !.query = [NoQuery EXCEPT !.page = page, !.limit = limit]]

RoleRequest(token, id, role) ==
  [Request("admin-user-role", token, id) EXCEPT !.role = role]

SuspendRequest(token, id, reason, feedback) ==
  [Request("admin-user-suspend", token, id) EXCEPT
     !.reason = reason, !.feedback = feedback]

\* the number of requests of this kind between two of their store calls
Pending(kind) == Cardinality({s \in Slots : inflight[s].kind = kind})

\* no request is between two of its store calls
Quiet == \A s \in Slots : inflight[s].kind = "idle"

\* ---------------------------------------------- the application lifecycle
AppIds == BadId..(MaxApps + 1)

InitApps ==
  /\ users = Staff
  /\ loans = <<>>
  /\ apps = <<>>
  /\ nextId = [users |-> 105, loans |-> 1, apps |-> 1]
  /\ now = 1
  /\ inflight = [s \in Slots |-> Idle]
  /\ resp = NoResp

\* Of the manager's and the admin's requests, one at a time is between its
\* gate and its handler; a borrower's cancel runs beside it.
OneDecision == \A s \in Slots : inflight[s].kind \in {"idle", "cancel"}

NextApps ==
  \/ \E t \in {Alice, Undefined}, b \in AppBodies :
       /\ b.userEmail = Alice
       /\ b.appliedAt = 1
       /\ SubmitApplication(t, b)
  \/ \E t \in {Alice}, e \in Borrowers : MyLoans(t, e)
  \/ \E t \in {Alice}, i \in AppIds, s \in SessionIds, e \in {Alice} :
       VerifyPayment(t, i, s, e)
  \/ \E s \in Slots, t \in {Alice, Bob}, i \in AppIds : CancelFind(s, t, i)
  \/ \E s \in Slots : CancelDelete(s)
  \/ \E s \in Slots, t \in {Manager}, st \in {"pending", Undefined} :
       /\ OneDecision
       /\ ManagerGate(s, ListRequest(t, st))
  \/ \E s \in Slots : ManagerListApplications(s)
  \/ \E s \in Slots, t \in {Manager, Alice}, i \in AppIds :
       /\ OneDecision
       /\ ManagerGate(s, Request("approve", t, i))
  \/ \E s \in Slots : ManagerApprove(s)
  \/ \E s \in Slots, t \in {Manager, Alice}, r \in {"late"} :
       /\ OneDecision
       /\ ManagerGate(s, RejectRequest(t, 1, r))
  \/ \E s \in Slots : ManagerReject(s)
  \/ \E s \in Slots, t \in {Root} :
       /\ OneDecision
       /\ AdminGate(s, Request("admin-list", t, BadId))
  \/ \E s \in Slots : AdminListApplications(s)
  \/ \E s \in Slots, t \in {Root, Manager}, st \in Statuses, r \in {Undefined, "late"} :
       /\ OneDecision
       /\ AdminGate(s, StatusRequest(t, 1, st, r))
  \/ \E s \in Slots : AdminStatus(s)
  \/ Tick

SpecApps == InitApps /\ [][NextApps]_vars

\* ------------------------------------------------------------ the catalog
SomeLoan == [loanTitle |-> <<"b">>, category |-> "home", showOnHome |-> FALSE]

InitLoans ==
  /\ users = Staff
  /\ loans = <<>>
  /\ apps = <<>>
  /\ nextId = [users |-> 105, loans |-> 1, apps |-> 1]
  /\ now = 1
  /\ inflight = [s \in Slots |-> Idle]
  /\ resp = NoResp

\* The requests run beside each other as the slots allow; the loan a manager
\* deletes or patches is the first one posted.
NextLoans ==
  \/ \E s \in Slots, b \in LoanBodies :
       /\ nextId.loans + Pending("post-loans") <= MaxLoans
       /\ ManagerGate(s, LoanRequest("post-loans", Manager, BadId, b))
  \/ \E s \in Slots :
       /\ nextId.loans + Pending("post-loans") <= MaxLoans
       /\ ManagerGate(s, LoanRequest("post-loans", Alice, BadId, SomeLoan))
  \/ \E s \in Slots : PostLoans(s)
  \/ \E s \in Slots, i \in {BadId, 1} :
       /\ ManagerGate(s, Request("delete-loans", Manager, i))
  \/ \E s \in Slots : DeleteLoans(s)
  \/ \E s \in Slots : ManagerGate(s, LoanRequest("patch-loans", Manager, 1, SomeLoan))
  \/ \E s \in Slots : PatchLoans(s)
  \/ \E s \in Slots, p \in 1..MaxPage, n \in 1..MaxLimit, srch \in Searches,
        c \in {"car", Undefined} :
       /\ AllLoansFind(s, p, n, srch, c)
  \/ \E s \in Slots :
       /\ AllLoansFind(s, 0, 1, <<>>, Undefined)
  \/ \E s \in Slots : AllLoansCount(s)

SpecLoans == InitLoans /\ [][NextLoans]_vars

\* ----------------------------------------------------------------- sign-in
InitUsers ==
  /\ users = <<>>
  /\ loans = <<>>
  /\ apps = <<>>
  /\ nextId = [users |-> 1, loans |-> 1, apps |-> 1]
  /\ now = 1
  /\ inflight = [s \in Slots |-> Idle]
  /\ resp = NoResp

NextUsers ==
  \/ \E s \in Slots, e \in {Alice, Root}, r \in {Undefined, "admin"} :
       PostUsersFind(s, e, r)
  \/ \E s \in Slots : PostUsersWrite(s)
  \/ \E e \in {Alice, Root} : UsersRole(e)
  \/ \E s \in Slots, t \in {Alice, Root}, i \in 1..MaxUsers, r \in {"manager"} :
       AdminGate(s, RoleRequest(t, i, r))
  \/ \E s \in Slots : AdminUserRole(s)
  \/ Tick

SpecUsers == InitUsers /\ [][NextUsers]_vars

\* ------------------------------------------- one request after the other
\* The application routes with no request started while another is between
\* two of its store calls.
NextSerial ==
  \/ Quiet /\ \E t \in {Alice}, b \in AppBodies : SubmitApplication(t, b)
  \/ Quiet /\ \E s \in Slots, t \in {Alice, Bob, Undefined}, i \in AppIds :
                CancelFind(s, t, i)
  \/ \E s \in Slots : CancelDelete(s)
  \/ Quiet /\ \E s \in Slots, t \in {Manager}, i \in AppIds :
                ManagerGate(s, Request("approve", t, i))
  \/ \E s \in Slots : ManagerApprove(s)
  \/ Quiet /\ \E s \in Slots, t \in {Root}, i \in AppIds, st \in Statuses,
                 r \in {Undefined, "late"} : AdminGate(s, StatusRequest(t, i, st, r))
  \/ \E s \in Slots : AdminStatus(s)
  \/ Quiet /\ Tick

SpecSerial == InitApps /\ [][NextSerial]_vars

\* ---------------------------------------------------------- the role gate
\* A catalog of one loan and one pending application of Alice's, as the
\* manager's POST /loans and Alice's POST /loan-applications leave them.
InitGate ==
  /\ users = Staff
  /\ loans = <<NewLoan(1, [loanTitle |-> <<"A", "b">>, category |-> "car",
                           showOnHome |-> TRUE])>>
  /\ apps = <<NewApplication(1, [userEmail |-> Alice, status |-> "pending",
                                 applicationFeeStatus |-> "unpaid",
                                 appliedAt |-> 1])>>
  /\ nextId = [users |-> 105, loans |-> 2, apps |-> 2]
  /\ now = 1
  /\ inflight = [s \in Slots |-> Idle]
  /\ resp = NoResp

\* Alice, whose role the admin changes, and an email without a user record
Callers == {Alice, Stranger}

\* Every gated route, the requests beside each other as the slots allow; the
\* admin changes Alice's role, and so does Alice when the gate lets her.
NextGate ==
  \/ \E s \in Slots, t \in Callers :
       /\ nextId.loans + Pending("post-loans") <= MaxLoans
       /\ ManagerGate(s, LoanRequest("post-loans", t, BadId, SomeLoan))
  \/ \E s \in Slots : PostLoans(s)
  \/ \E s \in Slots, t \in Callers :
       /\ ManagerGate(s, Request("get-loans", t, BadId))
  \/ \E s \in Slots : GetLoans(s)
  \/ \E s \in Slots, t \in Callers :
       /\ ManagerGate(s, Request("delete-loans", t, 1))
  \/ \E s \in Slots : DeleteLoans(s)
  \/ \E s \in Slots, t \in Callers :
       /\ ManagerGate(s, LoanRequest("patch-loans", t, 1, [showOnHome |-> FALSE]))
  \/ \E s \in Slots : PatchLoans(s)
  \/ \E s \in Slots, t \in Callers :
       /\ ManagerGate(s, ListRequest(t, Undefined))
  \/ \E s \in Slots : ManagerListApplications(s)
  \/ \E s \in Slots, t \in Callers :
       /\ ManagerGate(s, Request("approve", t, 1))
  \/ \E s \in Slots : ManagerApprove(s)
  \/ \E s \in Slots, t \in Callers :
       /\ ManagerGate(s, RejectRequest(t, 1, "late"))
  \/ \E s \in Slots : ManagerReject(s)
  \/ \E s \in Slots, t \in Callers :
       /\ AdminGate(s, Request("admin-loans", t, BadId))
  \/ \E s \in Slots : AdminLoans(s)
  \/ \E s \in Slots, t \in Callers :
       /\ AdminGate(s, Request("admin-loan", t, 1))
  \/ \E s \in Slots : AdminLoan(s)
  \/ \E s \in Slots, t \in Callers :
       /\ AdminGate(s, LoanRequest("admin-show-on-home", t, 1, SomeLoan))
  \/ \E s \in Slots : AdminShowOnHome(s)
  \/ \E s \in Slots, t \in Callers :
       /\ AdminGate(s, LoanRequest("admin-put-loan", t, 1, SomeLoan))
  \/ \E s \in Slots : AdminPutLoan(s)
  \/ \E s \in Slots, t \in Callers :
       /\ AdminGate(s, Request("admin-delete-loan", t, 1))
  \/ \E s \in Slots : AdminDeleteLoan(s)
  \/ \E s \in Slots, t \in Callers :
       /\ AdminGate(s, UsersRequest("admin-users", t, Undefined, Undefined, 1, 1))
  \/ \E s \in Slots : AdminUsersFind(s)
  \/ \E s \in Slots : AdminUsersCount(s)
  \/ \E s \in Slots, t \in Callers :
       /\ AdminGate(s, UsersRequest("admin-users-management", t, "borrower", Undefined, 0, 0))
  \/ \E s \in Slots : AdminUsersManagement(s)
  \/ \E s \in Slots, r \in {"borrower", "manager", "admin"} :
       AdminGate(s, RoleRequest(Root, 101, r))
  \/ \E s \in Slots, t \in Callers :
       AdminGate(s, RoleRequest(t, 101, "borrower"))
  \/ \E s \in Slots : AdminUserRole(s)
  \/ \E s \in Slots, t \in Callers :
       /\ AdminGate(s, SuspendRequest(t, 101, "fraud", "see support"))
  \/ \E s \in Slots : AdminUserSuspend(s)
  \/ \E s \in Slots, t \in Callers :
       /\ AdminGate(s, Request("admin-user-approve", t, 101))
  \/ \E s \in Slots : AdminUserApprove(s)
  \/ \E s \in Slots, t \in Callers :
       /\ AdminGate(s, Request("admin-list", t, BadId))
  \/ \E s \in Slots : AdminListApplications(s)
  \/ \E s \in Slots, t \in Callers :
       /\ AdminGate(s, StatusRequest(t, 1, "approved", Undefined))
  \/ \E s \in Slots : AdminStatus(s)

SpecGate == InitGate /\ [][NextGate]_vars

\* ================================================================= claims
Terminal == {"approved", "rejected"}

\* C1: once an application's status is approved or rejected, no step changes
\* it to the opposite terminal value or back to pending.
C1_TerminalStatusIsFinal ==
  [][\A i \in 1..Len(apps) : \A j \in 1..Len(apps') :
       (apps'[j]._id = apps[i]._id /\ apps[i].status \in Terminal)
         => apps'[j].status = apps[i].status]_vars

\* C2: a cancel request that runs alone deletes the application exactly when
\* it exists with status pending; in every other case the applications are
\* left as they were and the answer is 400.
C2_CancelIffPending ==
  [][(resp'.route = "cancel" /\ verifyJWT(resp'.caller)) =>
       IF HasId(apps, resp'.id) /\ DocOfId(apps, resp'.id).status = "pending"
       THEN apps' = DeleteOne(apps, resp'.id) /\ ~HasId(apps', resp'.id)
       ELSE apps' = apps /\ resp'.code = 400]_vars

\* C3: verify-payment marks the target application paid, with the payment
\* recorded, exactly when the processor reports the session paid; any other
\* reported status leaves the applications unchanged and answers 400; and an
\* answer of 200 means that an application now has applicationFeeStatus paid.
C3_PaidIffProcessorPaid ==
  [][(resp'.route = "verify-payment" /\ verifyJWT(resp'.caller)
        /\ SessionExists(resp'.arg)) =>
       /\ (PaymentStatus(resp'.arg) = "paid" /\ HasId(apps, resp'.id)) =>
            /\ DocOfId(apps', resp'.id).applicationFeeStatus = "paid"
            /\ DocOfId(apps', resp'.id).paymentInfo.transactionId = PaymentIntent(resp'.arg)
       /\ PaymentStatus(resp'.arg) # "paid" => (apps' = apps /\ resp'.code = 400)
       /\ resp'.code = 200 =>
            \E j \in 1..Len(apps') :
              apps'[j]._id = resp'.id /\ apps'[j].applicationFeeStatus = "paid"]_vars

ManagerRoutes ==
  {"post-loans", "get-loans", "delete-loans", "patch-loans", "manager-list",
   "approve", "reject"}

AdminRoutes ==
  {"admin-loans", "admin-loan", "admin-show-on-home", "admin-put-loan",
   "admin-delete-loan", "admin-users", "admin-users-management", "admin-user-role",
   "admin-user-suspend", "admin-user-approve", "admin-list", "admin-status"}

Gated == ManagerRoutes \cup AdminRoutes

\* the role a route's gate asks for
Required(route) == IF route \in ManagerRoutes THEN "manager" ELSE "admin"

\* the route of a request in flight
RouteOf(kind) == IF kind = "admin-users-count" THEN "admin-users" ELSE kind

\* C4: a request to a manager-only or admin-only route whose authenticated
\* email the gate finds to have no user record, or a record with another
\* role than the route requires, is answered 403 with the role found, and
\* leaves the users, loans and applications as they were: the gate lets a
\* request through to its handler only when it reads the required role, a
\* handler answers only for a request the gate let through, and the step
\* that answers 403 changes nothing and ends the request.
C4_RoleGate ==
  [][/\ \A s \in Slots :
          (inflight[s].kind = "idle" /\ inflight'[s].kind \in Gated) =>
            RoleOf(inflight'[s].caller) = Required(inflight'[s].kind)
     /\ (resp'.route \in Gated /\ verifyJWT(resp'.caller) /\ resp'.code # 403) =>
          \E s \in Slots : /\ RouteOf(inflight[s].kind) = resp'.route
                           /\ inflight[s].caller = resp'.caller
                           /\ inflight'[s].kind = "idle"
     /\ (resp'.route \in Gated /\ resp'.code = 403) =>
          /\ RoleOf(resp'.caller) # Required(resp'.route)
          /\ resp'.role = RoleOf(resp'.caller)
          /\ UNCHANGED <<users, loans, apps, inflight>>]_vars

\* Alice, made a manager, was turned away from an admin-only route that
\* writes
C4_Witness ==
  /\ resp.code = 403
  /\ resp.route = "admin-user-role"
  /\ resp.caller = Alice
  /\ resp.role = "manager"
  /\ RoleOf(Alice) = "manager"

\* C5: every application POST /loan-applications stores has status pending
\* and applicationFeeStatus unpaid, whatever the body; and GET /my-loans
\* returns the stored applications of the email it is asked for, so that an
\* email's only application, just submitted, comes back as one pending
\* record.
C5_SubmittedIsPendingUnpaid ==
  [][/\ (resp'.route = "submit" /\ resp'.code = 200) =>
          /\ HasId(apps', resp'.id)
          /\ DocOfId(apps', resp'.id).status = "pending"
          /\ DocOfId(apps', resp'.id).applicationFeeStatus = "unpaid"
     /\ (resp'.route = "my-loans" /\ resp'.code = 200) =>
          /\ Len(resp'.docs) = Cardinality({i \in 1..Len(apps) :
                                             apps[i].userEmail = resp'.arg})
          /\ \A k \in 1..Len(resp'.docs) :
               /\ resp'.docs[k].userEmail = resp'.arg
               /\ HasId(apps, resp'.docs[k]._id)
               /\ resp'.docs[k] = DocOfId(apps, resp'.docs[k]._id)]_vars

\* C6: no two user records have the same email.
C6_EmailsUnique ==
  \A i \in 1..Len(users) : \A j \in 1..Len(users) :
    users[i].email = users[j].email => i = j

\* C7: a cancel request removes an application only when the caller is the
\* borrower the application belongs to.
C7_OnlyOwnerCancels ==
  [][(resp'.route = "cancel" /\ apps' # apps) =>
       DocOfId(apps, resp'.id).userEmail = resp'.caller]_vars

\* the i-th index of S in increasing order
Nth(S, k) == CHOOSE i \in S : Cardinality({j \in S : j <= i}) = k

Max2(a, b) == IF a >= b THEN a ELSE b
Min2(a, b) == IF a <= b THEN a ELSE b

\* the indices of the loans a query of GET /all-loans matches
Matching(q) ==
  {i \in 1..Len(loans) :
     /\ loans[i].showOnHome
     /\ q.search = <<>> \/ RegexI(loans[i].loanTitle, q.search)
     /\ q.category = Undefined \/ loans[i].category = q.category}

\* C8: GET /all-loans with page p >= 1 and limit n >= 1 answers 200 with at
\* most n loans, the ones from offset (p-1)*n on among the loans that are
\* shown on the home page and match the title search and the category, in
\* their order, as the catalog stands when the request's find runs; and
\* total is the number of those loans, whatever p and n, as the catalog
\* stands when its countDocuments runs.
C8_Pagination ==
  [][/\ \A s \in Slots :
          /\ (/\ inflight[s].kind = "idle"
              /\ inflight'[s].kind = "all-loans"
              /\ inflight'[s].query.page >= 1
              /\ inflight'[s].query.limit >= 1) =>
               LET q == inflight'[s].query
                   d == inflight'[s].docs
                   off == (q.page - 1) * q.limit
               IN /\ Len(d) <= q.limit
                  /\ Len(d) = Max2(0, Min2(q.limit, Cardinality(Matching(q)) - off))
                  /\ \A k \in 1..Len(d) : d[k] = loans[Nth(Matching(q), off + k)]
          /\ (inflight[s].kind = "all-loans" /\ inflight'[s].kind = "idle") =>
               /\ resp'.route = "all-loans"
               /\ resp'.query = inflight[s].query
               /\ resp'.docs = inflight[s].docs
               /\ resp'.n = Cardinality(Matching(inflight[s].query))
     /\ (resp'.route = "all-loans" /\ resp'.query.page >= 1 /\ resp'.query.limit >= 1) =>
          resp'.code = 200]_vars

\* the second page of one: the second of the two loans of the catalog, both
\* matching the title search
C8_Witness ==
  /\ resp.route = "all-loans"
  /\ resp.code = 200
  /\ resp.query.page = 2
  /\ resp.query.limit = 1
  /\ resp.query.search = <<"a">>
  /\ Len(resp.docs) = 1
  /\ resp.n = 2
  /\ Len(loans) = 2

\* C9: no application is removed while its stored status is approved or
\* rejected.
C9_DeletedOnlyWhilePending ==
  [][\A i \in 1..Len(apps) :
       (apps[i].status \in Terminal) => HasId(apps', apps[i]._id)]_vars

\* C10: a manager's approve or reject of an existing application sets the
\* status to approved or rejected and records the manager and the time of
\* the decision, and the reason of a rejection.
C10_DecisionRecorded ==
  [][(resp'.route \in {"approve", "reject"} /\ resp'.code \notin {401, 403}
        /\ HasId(apps, resp'.id)) =>
       /\ HasId(apps', resp'.id)
       /\ LET a == DocOfId(apps', resp'.id)
          IN IF resp'.route = "approve"
             THEN /\ a.status = "approved"
                  /\ a.handledBy = resp'.caller
                  /\ a.approvedAt # NoDate
             ELSE /\ a.status = "rejected"
                  /\ a.managedBy = resp'.caller
                  /\ a.rejectedAt # NoDate
                  /\ a.rejectionReason = resp'.arg]_vars

\* C11: a verify-payment repeated with the same paid session, application
\* and email leaves the application document as the first one left it,
\* paymentInfo.paidAt included; and an application's fee status never returns
\* from paid to unpaid.
C11_PaymentIdempotent ==
  [][/\ (/\ resp'.route = "verify-payment"
         /\ resp'.code = 200
         /\ HasId(apps, resp'.id)
         /\ DocOfId(apps, resp'.id).applicationFeeStatus = "paid"
         /\ DocOfId(apps, resp'.id).paymentInfo.transactionId = PaymentIntent(resp'.arg)
         /\ DocOfId(apps', resp'.id).paymentInfo.email
              = DocOfId(apps, resp'.id).paymentInfo.email) =>
          DocOfId(apps', resp'.id) = DocOfId(apps, resp'.id)
     /\ \A i \in 1..Len(apps) : \A j \in 1..Len(apps') :
          (apps'[j]._id = apps[i]._id /\ apps[i].applicationFeeStatus = "paid")
            => apps'[j].applicationFeeStatus = "paid"]_vars

====
